---- MODULE Spec2Model ----
(***************************************************************************)
(* http-light: a minimal HTTP/1.1 server (src/http-light.go).              *)
(*                                                                         *)
(* Byte strings are sequences of one-character strings, so that the        *)
(* parser (ReadString, TrimSpace, Split, SplitN, Atoi) and the serializer  *)
(* (Sprintf, conn.Write) are computed on the bytes as the code computes    *)
(* them.  A map[string]string is a function whose domain is a set of byte  *)
(* strings.  A pointer is a sequence of length 0 (nil) or 1.               *)
(***************************************************************************)
EXTENDS Integers, Sequences, FiniteSets, TLC

(***************************************************************************)
(* Bounds of the model.                                                    *)
(***************************************************************************)
\* connections handled concurrently in PoolSpec and ServerSpec
NumConns == 2
\* header lines of a generated request
MaxHeaders == 2
\* bytes a failing conn.Write may still have written
MaxPartialWrite == 1
\* headers of a generated Response in WriteSpec
MaxResHeaders == 2

(***************************************************************************)
(* Program constants.                                                      *)
(***************************************************************************)
\* make([]byte, 4096): length and capacity of a pooled buffer
PoolBufCap == 4096

(***************************************************************************)
(* String literals of the program and of its tests.                        *)
(***************************************************************************)
CRLF == <<"\r", "\n">>
LF == <<"\n">>
SP == <<" ">>
ColonSpace == <<":", " ">>
ContentLengthName == <<"C", "o", "n", "t", "e", "n", "t", "-", "L", "e", "n", "g", "t", "h">>
NameHeader == <<"N", "a", "m", "e">>
ContentTypeName == <<"C", "o", "n", "t", "e", "n", "t", "-", "T", "y", "p", "e">>
TextPlain == <<"t", "e", "x", "t", "/", "p", "l", "a", "i", "n">>
ProtoPrefix == <<"H", "T", "T", "P", "/", "1", ".", "1", " ">>
RootURL == <<"/">>
HelloURL == <<"/", "h", "e", "l", "l", "o">>
RootBody == <<"W", "e", "l", "c", "o", "m", "e", " ", "t", "o", " ", "t", "h", "e", " ", "r", "o", "o", "t", " ", "p", "a", "g", "e", "!">>
NotFoundBody == <<"4", "0", "4", " ", "N", "o", "t", " ", "F", "o", "u", "n", "d">>
HelloPrefix == <<"H", "e", "l", "l", "o", ",", " ">>
HelloSuffix == <<"!">>
World == <<"W", "o", "r", "l", "d">>
BadRequestMsg == <<"B", "a", "d", " ", "R", "e", "q", "u", "e", "s", "t">>
TextOK == <<"O", "K">>
TextBadRequest == <<"B", "a", "d", " ", "R", "e", "q", "u", "e", "s", "t">>
TextNotFound == <<"N", "o", "t", " ", "F", "o", "u", "n", "d">>
TextInternal == <<"I", "n", "t", "e", "r", "n", "a", "l", " ", "S", "e", "r", "v", "e", "r", " ", "E", "r", "r", "o", "r">>
TextUnknown == <<"U", "n", "k", "n", "o", "w", "n", " ", "S", "t", "a", "t", "u", "s">>

\* error values: "" is nil
NoErr == ""
ErrEOF == "EOF"
ErrUnexpectedEOF == "unexpected EOF"
ErrRequestLine == "malformed request line"
ErrHeaderLine == "malformed header line"
ErrContentLength == "invalid Content-Length"
SyntaxErrors == {ErrRequestLine, ErrHeaderLine, ErrContentLength}

(***************************************************************************)
(* package strings / strconv / fmt, on byte sequences.                     *)
(***************************************************************************)
\* unicode.IsSpace on the bytes of the model's alphabet
IsSpace(ch) == ch \in {" ", "\t", "\n", "\r", "\f"}

RECURSIVE TrimLeft(_)
TrimLeft(s) ==
    IF s # <<>> /\ IsSpace(Head(s)) THEN TrimLeft(Tail(s)) ELSE s

RECURSIVE TrimRight(_)
TrimRight(s) ==
    IF s # <<>> /\ IsSpace(s[Len(s)]) THEN TrimRight(SubSeq(s, 1, Len(s) - 1)) ELSE s

\* strings.TrimSpace
TrimSpace(s) == TrimRight(TrimLeft(s))

\* s[i:i+len(sep)] == sep
HasAt(s, i, sep) ==
    /\ i + Len(sep) - 1 <= Len(s)
    /\ \A j \in 1..Len(sep) : s[i + j - 1] = sep[j]

\* strings.Index, 1-based; 0 when sep does not occur
Index(s, sep) ==
    LET hits == {i \in 1..Len(s) : HasAt(s, i, sep)}
    IN IF hits = {} THEN 0 ELSE CHOOSE i \in hits : \A j \in hits : i <= j

\* strings.SplitN for a non-empty sep
RECURSIVE SplitN(_, _, _)
SplitN(s, sep, n) ==
    IF n = 0 THEN <<>>
    ELSE IF n = 1 \/ Index(s, sep) = 0 THEN <<s>>
    ELSE LET i == Index(s, sep)
         IN <<SubSeq(s, 1, i - 1)>>
              \o SplitN(SubSeq(s, i + Len(sep), Len(s)), sep, n - 1)

\* strings.Split(s, sep) is SplitN(s, sep, -1)
Split(s, sep) == SplitN(s, sep, -1)

Digits == <<"0", "1", "2", "3", "4", "5", "6", "7", "8", "9">>
IsDigit(ch) == \E d \in 1..10 : Digits[d] = ch
DigitVal(ch) == (CHOOSE d \in 1..10 : Digits[d] = ch) - 1

RECURSIVE DigitsVal(_)
DigitsVal(s) ==
    IF s = <<>> THEN 0 ELSE 10 * DigitsVal(SubSeq(s, 1, Len(s) - 1)) + DigitVal(s[Len(s)])

\* strconv.Atoi: an optional sign, then one or more decimal digits.  The
\* generated values have at most four digits, far from the range error.
Atoi(s) ==
    LET signed == s # <<>> /\ Head(s) \in {"+", "-"}
        ds == IF signed THEN Tail(s) ELSE s
    IN IF ds = <<>> \/ \E i \in 1..Len(ds) : ~IsDigit(ds[i])
       THEN [ok |-> FALSE, val |-> 0]
       ELSE [ok |-> TRUE,
             val |-> IF signed /\ Head(s) = "-" THEN 0 - DigitsVal(ds) ELSE DigitsVal(ds)]

\* fmt's %d
RECURSIVE NatStr(_)
NatStr(n) ==
    IF n < 10 THEN <<Digits[n + 1]>> ELSE NatStr(n \div 10) \o <<Digits[(n % 10) + 1]>>

Itoa(n) == IF n < 0 THEN <<"-">> \o NatStr(0 - n) ELSE NatStr(n)

(***************************************************************************)
(* Pure functions of the program.                                          *)
(***************************************************************************)
\* statusText
statusText(statusCode) ==
    CASE statusCode = 200 -> TextOK
      [] statusCode = 400 -> TextBadRequest
      [] statusCode = 404 -> TextNotFound
      [] statusCode = 500 -> TextInternal
      [] OTHER -> TextUnknown

\* the one header every Response of the program carries
PlainHeaders == [k \in {ContentTypeName} |-> TextPlain]

\* m[key] of a Go map: the zero value "" for a missing key
MapGet(m, key) == IF key \in DOMAIN m THEN m[key] ELSE <<>>

\* m[key] = value
MapPut(m, key, value) ==
    [k \in (DOMAIN m) \cup {key} |-> IF k = key THEN value ELSE m[k]]

handleRoot(req) ==
    [StatusCode |-> 200, Headers |-> PlainHeaders, Body |-> RootBody]

handleHello(req) ==
    LET name == MapGet(req.Headers, NameHeader)
    IN [StatusCode |-> 200, Headers |-> PlainHeaders,
        Body |-> HelloPrefix \o (IF name = <<>> THEN World ELSE name) \o HelloSuffix]

handleRequest(req) ==
    CASE req.URL = RootURL -> handleRoot(req)
      [] req.URL = HelloURL -> handleHello(req)
      [] OTHER -> [StatusCode |-> 404, Headers |-> PlainHeaders, Body |-> NotFoundBody]

\* the Response writeErrorResponse builds
ErrorResponse(statusCode, message) ==
    [StatusCode |-> statusCode, Headers |-> PlainHeaders, Body |-> message]

\* fmt.Sprintf("HTTP/1.1 %d %s\r\n", res.StatusCode, statusText(res.StatusCode))
StatusLine(res) ==
    ProtoPrefix \o Itoa(res.StatusCode) \o SP \o statusText(res.StatusCode) \o CRLF

\* fmt.Sprintf("%s: %s\r\n", key, value)
HeaderLine(key, value) == key \o ColonSpace \o value \o CRLF

(***************************************************************************)
(* The requests a client sends and the Responses handed to writeResponse.  *)
(***************************************************************************)
LineRoot == <<"G", "E", "T", " ", "/", " ", "H", "T", "T", "P", "/", "1", ".", "1">>
LineHello == <<"G", "E", "T", " ", "/", "h", "e", "l", "l", "o", " ", "H", "T", "T", "P", "/", "1", ".", "1">>
LineNotFound == <<"G", "E", "T", " ", "/", "n", "o", "t", "f", "o", "u", "n", "d", " ", "H", "T", "T", "P", "/", "1", ".", "1">>
LineTwoTokens == <<"G", "E", "T", " ", "/">>
LineFourTokens == <<"G", "E", "T", " ", "/", " ", "H", "T", "T", "P", "/", "1", ".", "1", " ", "x">>
LineEmptyMethod == <<" ", "/", " ", "H", "T", "T", "P", "/", "1", ".", "1">>
LineEmptyTarget == <<"G", "E", "T", " ", " ", "H", "T", "T", "P", "/", "1", ".", "1">>
LineEmptyTargetVersion == <<"G", "E", "T", " ", " ">>
LineBadVersion == <<"G", "E", "T", " ", "/", " ", "F", "T", "P">>
LineTrailingSpace == <<"G", "E", "T", " ", "/", " ", "H", "T", "T", "P", "/", "1", ".", "1", " ">>
HdrNameGo == <<"N", "a", "m", "e", ":", " ", "G", "o">>
HdrNameTLA == <<" ", "N", "a", "m", "e", ":", " ", "T", "L", "A", " ", "\t">>
HdrHost == <<"H", "o", "s", "t", ":", " ", "l", "o", "c", "a", "l", "h", "o", "s", "t">>
HdrLen0 == <<"C", "o", "n", "t", "e", "n", "t", "-", "L", "e", "n", "g", "t", "h", ":", " ", "0">>
HdrLen2 == <<"C", "o", "n", "t", "e", "n", "t", "-", "L", "e", "n", "g", "t", "h", ":", " ", "2">>
HdrLenAbc == <<"C", "o", "n", "t", "e", "n", "t", "-", "L", "e", "n", "g", "t", "h", ":", " ", "a", "b", "c">>
HdrLenNeg == <<"C", "o", "n", "t", "e", "n", "t", "-", "L", "e", "n", "g", "t", "h", ":", " ", "-", "1">>
HdrLenBig == <<"C", "o", "n", "t", "e", "n", "t", "-", "L", "e", "n", "g", "t", "h", ":", " ", "4", "0", "9", "7">>
HdrLowerLen == <<"c", "o", "n", "t", "e", "n", "t", "-", "l", "e", "n", "g", "t", "h", ":", " ", "2">>
HdrNoColon == <<"B", "r", "o", "k", "e", "n">>
BodyAB == <<"a", "b">>
BodyA == <<"a">>
BodyCD == <<"c", "d">>
BodyABC == <<"a", "b", "c">>
HelloGoBody == <<"H", "e", "l", "l", "o", ",", " ", "G", "o", "!">>
XTrace == <<"X", "-", "T", "r", "a", "c", "e">>
TraceVal == <<"t", "1">>

RequestLines ==
    {LineRoot, LineHello, LineNotFound, LineTwoTokens, LineFourTokens, LineEmptyMethod,
     LineEmptyTarget, LineEmptyTargetVersion, LineBadVersion, LineTrailingSpace}
HeaderLines ==
    {HdrNameGo, HdrNameTLA, HdrLen0, HdrLen2, HdrLenAbc, HdrLenNeg, HdrLenBig, HdrNoColon}
Bodies == {<<>>, BodyA, BodyAB, BodyABC}
\* a body one byte longer than a pooled buffer
BigBody == [i \in 1..(PoolBufCap + 1) |-> "x"]
HeaderSeqs == UNION {[1..n -> HeaderLines] : n \in 0..MaxHeaders}

RECURSIVE JoinLines(_, _)
JoinLines(ls, eol) ==
    IF ls = <<>> THEN <<>> ELSE Head(ls) \o eol \o JoinLines(Tail(ls), eol)

\* the bytes of a request: request line, header lines, blank line, body
Wire(line, hs, eol, b) == line \o eol \o JoinLines(hs, eol) \o eol \o b

\* header sections of the requests of Spec: none, one good header, each kind
\* of Content-Length, a line without ": "
SpecHeaderSeqs ==
    {<<>>, <<HdrNameGo>>, <<HdrLen0>>, <<HdrLen2>>, <<HdrLenAbc>>, <<HdrLenNeg>>,
     <<HdrLenBig>>, <<HdrNoColon>>, <<HdrLowerLen>>}

\* requests of the one connection of Spec: every request line alone, with
\* CRLF or a bare LF; every header section and body after a good request
\* line; requests cut before the first line terminator; a request whose body
\* is longer than a pooled buffer
BigRequest == Wire(LineHello, <<HdrLenBig>>, CRLF, BigBody)
Requests ==
    {Wire(l, <<>>, eol, <<>>) : l \in RequestLines, eol \in {CRLF, LF}}
      \cup {Wire(LineHello, hs, CRLF, b) : hs \in SpecHeaderSeqs, b \in Bodies}
      \cup {<<>>, LineRoot, BigRequest}

\* requests handed to parseRequest in ParseSpec: every sequence of at most
\* MaxHeaders header lines
ParseRequests == {Wire(LineHello, hs, CRLF, b) : hs \in HeaderSeqs, b \in {<<>>, BodyABC}}

\* requests of the concurrent connections of PoolSpec: a complete body, a
\* body that never arrives in full, no body
PoolRequests ==
    {Wire(LineRoot, <<HdrLen2>>, CRLF, BodyCD), Wire(LineRoot, <<HdrLen2>>, CRLF, BodyA),
     Wire(LineRoot, <<>>, CRLF, <<>>)}

\* requests of the concurrent connections of ServerSpec: complete with its
\* body, malformed, announcing a body longer than a pooled buffer, and cut
\* before the first line terminator
ServerRequests ==
    {Wire(LineHello, <<HdrLen2>>, CRLF, BodyAB), Wire(LineTwoTokens, <<>>, CRLF, <<>>),
     Wire(LineHello, <<HdrLenBig>>, CRLF, <<>>), LineRoot}

StatusCodes == {200, 400, 404, 500, 201}
ResHeaderNames == {ContentTypeName, XTrace, ContentLengthName}
ResHeaderMaps ==
    UNION {[ks -> {TextPlain, TraceVal}] :
             ks \in {s \in SUBSET ResHeaderNames : Cardinality(s) <= MaxResHeaders}}
Responses ==
    {[StatusCode |-> sc, Headers |-> hm, Body |-> b] :
       sc \in StatusCodes, hm \in ResHeaderMaps, b \in {<<>>, HelloGoBody}}

(***************************************************************************)
(* State.                                                                  *)
(***************************************************************************)
Conn == 1..NumConns
\* buffers that can be live at once: one per connection, and one left in the
\* pool by an earlier connection
Bufs == 1..(NumConns + 1)
NoBuf == 0
\* a byte of a buffer that was never written: make([]byte, n) zeroes it
Zero == "NUL"
WriteErrors == {"broken pipe", "connection reset"}

VARIABLES
    conns,          \* the connections accepted by main's loop
    toSend,         \* bytes each client has still to send
    inbuf,          \* bytes arrived on the connection and not yet read
    eof,            \* the client has closed its side
    recv,           \* history: every byte that arrived on the connection
    pc,             \* each connection goroutine's position
    deferred,       \* each goroutine's stack of deferred calls
    panicking,      \* the goroutine is unwinding a run-time panic
    crashed,        \* the process died of an unrecovered panic
    perr,           \* parseRequest: the error it returns
    method, url, headers, length, got, body,   \* parseRequest's locals
    req,            \* parseRequest's *Request result
    reqLine,        \* history: the request line read, as a pointer
    lines,          \* history: the header lines read, as read, in order
    pool,           \* bufferPool: how many references to each buffer it holds
    bufData,        \* the written prefix of each buffer's bytes
    held,           \* bodyBuffer of each running parseRequest
    gets, puts,     \* history: bufferPool.Get / Put calls of each connection
    res,            \* the *Response being written
    ret,            \* who called writeResponse
    wtodo,          \* writeResponse: headers the range loop has yet to visit
    werr,           \* writeResponse: the error it returns
    callErr,        \* the error the caller of writeResponse received
    out,            \* bytes written to the connection
    nwrites,        \* history: conn.Write calls
    wfail,          \* history: the error of the conn.Write that failed
    closed,         \* conn.Close calls
    parseCalls, dispatchCalls, writeCalls,   \* history: calls per connection
    logs            \* what log.Printf recorded

streamVars == <<toSend, inbuf, eof, recv>>
parseVars == <<perr, method, url, headers, length, got, body, req, reqLine, lines>>
poolVars == <<pool, bufData, held, gets, puts>>
writeVars == <<res, ret, wtodo, werr, callErr, out, nwrites, wfail>>
ctlVars == <<conns, deferred, panicking, crashed, closed, parseCalls, dispatchCalls,
             writeCalls, logs>>
vars == <<streamVars, pc, parseVars, poolVars, writeVars, ctlVars>>

Min(a, b) == IF a < b THEN a ELSE b
Max(a, b) == IF a < b THEN b ELSE a

\* the bytes an earlier connection left in a pooled buffer
StaleData == <<"z", "z", "z">>

\* everything but the accepted connections, their streams and the pool
InitCommon ==
    /\ deferred = [c \in Conn |-> <<>>]
    /\ panicking = [c \in Conn |-> FALSE]
    /\ crashed = FALSE
    /\ perr = [c \in Conn |-> NoErr]
    /\ method = [c \in Conn |-> <<>>]
    /\ url = [c \in Conn |-> <<>>]
    /\ headers = [c \in Conn |-> <<>>]
    /\ length = [c \in Conn |-> 0]
    /\ got = [c \in Conn |-> 0]
    /\ body = [c \in Conn |-> <<>>]
    /\ req = [c \in Conn |-> <<>>]
    /\ reqLine = [c \in Conn |-> <<>>]
    /\ lines = [c \in Conn |-> <<>>]
    /\ held = [c \in Conn |-> NoBuf]
    /\ gets = [c \in Conn |-> <<>>]
    /\ puts = [c \in Conn |-> <<>>]
    /\ wtodo = [c \in Conn |-> {}]
    /\ werr = [c \in Conn |-> NoErr]
    /\ callErr = [c \in Conn |-> NoErr]
    /\ out = [c \in Conn |-> <<>>]
    /\ nwrites = [c \in Conn |-> 0]
    /\ wfail = [c \in Conn |-> NoErr]
    /\ closed = [c \in Conn |-> 0]
    /\ parseCalls = [c \in Conn |-> 0]
    /\ dispatchCalls = [c \in Conn |-> 0]
    /\ writeCalls = [c \in Conn |-> 0]
    /\ logs = [c \in Conn |-> {}]

\* the pool as earlier connections may have left it: empty, or holding one
\* buffer with their bytes in it
InitPool ==
    \E stale \in BOOLEAN :
        /\ pool = [b \in Bufs |-> IF stale /\ b = 1 THEN 1 ELSE 0]
        /\ bufData = [b \in Bufs |-> IF stale /\ b = 1 THEN StaleData ELSE <<>>]

\* main has accepted one connection and started `go handleConnection(conn)`
Init ==
    /\ InitCommon
    /\ InitPool
    /\ conns = {1}
    /\ inbuf = [c \in Conn |-> <<>>]
    /\ eof = [c \in Conn |-> FALSE]
    /\ \E r \in Requests : toSend = [c \in Conn |-> IF c = 1 THEN r ELSE <<>>]
    /\ pc = [c \in Conn |-> IF c = 1 THEN "accepted" ELSE "none"]
    /\ res = [c \in Conn |-> <<>>]
    /\ ret = [c \in Conn |-> ""]
    /\ recv = inbuf

\* a caller such as TestParseRequest has called parseRequest(conn) on a
\* strings.Reader: all the bytes are there, and then the stream ends
ParseInit ==
    /\ InitCommon
    /\ InitPool
    /\ conns = {1}
    /\ toSend = [c \in Conn |-> <<>>]
    /\ \E r \in ParseRequests : inbuf = [c \in Conn |-> IF c = 1 THEN r ELSE <<>>]
    /\ eof = [c \in Conn |-> c = 1]
    /\ pc = [c \in Conn |-> IF c = 1 THEN "read_reqline" ELSE "none"]
    /\ res = [c \in Conn |-> <<>>]
    /\ ret = [c \in Conn |-> ""]
    /\ recv = inbuf

\* main has accepted NumConns connections, each with its goroutine, and
\* each client's bytes have arrived
PoolInit ==
    /\ InitCommon
    /\ InitPool
    /\ conns = Conn
    /\ toSend = [c \in Conn |-> <<>>]
    /\ inbuf \in [Conn -> PoolRequests]
    /\ eof = [c \in Conn |-> FALSE]
    /\ pc = [c \in Conn |-> "accepted"]
    /\ res = [c \in Conn |-> <<>>]
    /\ ret = [c \in Conn |-> ""]
    /\ recv = inbuf

\* main has accepted NumConns connections and started a goroutine for each;
\* what each client sends has arrived and the clients keep the connections open
ServerInit ==
    /\ InitCommon
    /\ InitPool
    /\ conns = Conn
    /\ toSend = [c \in Conn |-> <<>>]
    /\ inbuf \in [Conn -> ServerRequests]
    /\ eof = [c \in Conn |-> FALSE]
    /\ pc = [c \in Conn |-> "accepted"]
    /\ res = [c \in Conn |-> <<>>]
    /\ ret = [c \in Conn |-> ""]
    /\ recv = inbuf

\* a caller such as TestWriteResponse is about to call writeResponse(conn, res)
WriteInit ==
    /\ InitCommon
    /\ InitPool
    /\ conns = {1}
    /\ inbuf = [c \in Conn |-> <<>>]
    /\ eof = [c \in Conn |-> FALSE]
    /\ toSend = [c \in Conn |-> <<>>]
    /\ pc = [c \in Conn |-> IF c = 1 THEN "w_status" ELSE "none"]
    /\ \E r \in Responses : res = [c \in Conn |-> IF c = 1 THEN <<r>> ELSE <<>>]
    /\ ret = [c \in Conn |-> IF c = 1 THEN "caller" ELSE ""]
    /\ recv = inbuf

(***************************************************************************)
(* The client side of a connection.                                        *)
(***************************************************************************)
\* where a client's next segment may end: after its next line, or at the end
SendCuts(s) == {Len(s)} \cup (IF Index(s, LF) > 0 THEN {Index(s, LF)} ELSE {})

ClientSend(c) ==
    /\ ~crashed /\ c \in conns /\ ~eof[c] /\ toSend[c] # <<>>
    /\ \E k \in SendCuts(toSend[c]) :
          /\ inbuf' = [inbuf EXCEPT ![c] = @ \o SubSeq(toSend[c], 1, k)]
          /\ recv' = [recv EXCEPT ![c] = @ \o SubSeq(toSend[c], 1, k)]
          /\ toSend' = [toSend EXCEPT ![c] = SubSeq(@, k + 1, Len(@))]
    /\ UNCHANGED <<eof, pc, parseVars, poolVars, writeVars, ctlVars>>

\* the client closes its side: what it had not sent never arrives
ClientClose(c) ==
    /\ ~crashed /\ c \in conns /\ ~eof[c]
    /\ eof' = [eof EXCEPT ![c] = TRUE]
    /\ toSend' = [toSend EXCEPT ![c] = <<>>]
    /\ UNCHANGED <<inbuf, recv, pc, parseVars, poolVars, writeVars, ctlVars>>

(***************************************************************************)
(* handleConnection, up to the call of parseRequest.                       *)
(***************************************************************************)
\* Mutation of Start: handleConnection without its `defer conn.Close()`
StartNoDefer(c) ==
    /\ ~crashed /\ pc[c] = "accepted"
    /\ logs' = [logs EXCEPT ![c] = @ \cup {"Accepted connection"}]
    /\ parseCalls' = [parseCalls EXCEPT ![c] = @ + 1]
    /\ pc' = [pc EXCEPT ![c] = "read_reqline"]
    /\ UNCHANGED <<streamVars, parseVars, poolVars, writeVars, conns, deferred,
                   panicking, crashed, closed, dispatchCalls, writeCalls>>

\* defer conn.Close(); log.Printf("Accepted connection ..."); parseRequest(conn)
Start(c) ==
    /\ ~crashed /\ pc[c] = "accepted"
    /\ deferred' = [deferred EXCEPT ![c] = <<"conn.Close">> \o @]
    /\ logs' = [logs EXCEPT ![c] = @ \cup {"Accepted connection"}]
    /\ parseCalls' = [parseCalls EXCEPT ![c] = @ + 1]
    /\ pc' = [pc EXCEPT ![c] = "read_reqline"]
    /\ UNCHANGED <<streamVars, parseVars, poolVars, writeVars, conns, panicking,
                   crashed, closed, dispatchCalls, writeCalls>>

(***************************************************************************)
(* parseRequest.                                                           *)
(***************************************************************************)
\* reader.ReadString('\n') returns once a '\n' has arrived or the stream ended
CanReadString(c) == Index(inbuf[c], LF) > 0 \/ eof[c]

\* what ReadString returns: the line with its '\n', or io.EOF
ReadString(buf) ==
    LET i == Index(buf, LF)
    IN IF i > 0
       THEN [line |-> SubSeq(buf, 1, i), rest |-> SubSeq(buf, i + 1, Len(buf)), err |-> NoErr]
       ELSE [line |-> buf, rest |-> <<>>, err |-> ErrEOF]

\* Mutation of ParseRequestLine: only trailing white space is trimmed
ParseRequestLineTrimRight(line) ==
    LET parts == Split(TrimRight(line), SP)
    IN IF Len(parts) # 3
       THEN [err |-> ErrRequestLine, method |-> <<>>, url |-> <<>>]
       ELSE [err |-> NoErr, method |-> parts[1], url |-> parts[2]]

\* Mutation of ParseRequestLine: a line with an empty token is malformed
ParseRequestLineNoEmptyToken(line) ==
    LET parts == Split(TrimSpace(line), SP)
    IN IF Len(parts) # 3 \/ \E i \in 1..Len(parts) : parts[i] = <<>>
       THEN [err |-> ErrRequestLine, method |-> <<>>, url |-> <<>>]
       ELSE [err |-> NoErr, method |-> parts[1], url |-> parts[2]]

\* parts := strings.Split(strings.TrimSpace(requestLine), " "); len(parts) != 3
ParseRequestLine(line) ==
    LET parts == Split(TrimSpace(line), SP)
    IN IF Len(parts) # 3
       THEN [err |-> ErrRequestLine, method |-> <<>>, url |-> <<>>]
       ELSE [err |-> NoErr, method |-> parts[1], url |-> parts[2]]

ReadRequestLine(c) ==
    /\ ~crashed /\ pc[c] = "read_reqline" /\ CanReadString(c)
    /\ LET r == ReadString(inbuf[c])
           p == ParseRequestLine(r.line)
           e == IF r.err # NoErr THEN r.err ELSE p.err
       IN /\ inbuf' = [inbuf EXCEPT ![c] = r.rest]
          /\ perr' = [perr EXCEPT ![c] = e]
          /\ reqLine' = [reqLine EXCEPT ![c] = IF r.err = NoErr THEN <<r.line>> ELSE @]
          /\ method' = [method EXCEPT ![c] = IF e = NoErr THEN p.method ELSE @]
          /\ url' = [url EXCEPT ![c] = IF e = NoErr THEN p.url ELSE @]
          /\ pc' = [pc EXCEPT ![c] = IF e = NoErr THEN "read_header" ELSE "parse_exit"]
    /\ UNCHANGED <<toSend, eof, recv, headers, length, got, body, req, lines, poolVars,
                   writeVars, ctlVars>>

\* line = strings.TrimSpace(line); strings.SplitN(line, ": ", 2)
ParseHeaderLine(line) ==
    LET t == TrimSpace(line)
        headerParts == SplitN(t, ColonSpace, 2)
    IN IF t = <<>> THEN [blank |-> TRUE, err |-> NoErr, key |-> <<>>, value |-> <<>>]
       ELSE IF Len(headerParts) # 2
       THEN [blank |-> FALSE, err |-> ErrHeaderLine, key |-> <<>>, value |-> <<>>]
       ELSE [blank |-> FALSE, err |-> NoErr, key |-> headerParts[1],
             value |-> headerParts[2]]

\* Mutation of StoreHeader: a repeated header name keeps its first value
StoreHeaderFirstWins(h, key, value) ==
    IF key \in DOMAIN h THEN h ELSE MapPut(h, key, value)

\* headers[headerParts[0]] = headerParts[1]
StoreHeader(h, key, value) == MapPut(h, key, value)

\* one iteration of the header loop
ReadHeaderLine(c) ==
    /\ ~crashed /\ pc[c] = "read_header" /\ CanReadString(c)
    /\ LET r == ReadString(inbuf[c])
           p == ParseHeaderLine(r.line)
           e == IF r.err # NoErr THEN r.err ELSE p.err
       IN /\ inbuf' = [inbuf EXCEPT ![c] = r.rest]
          /\ perr' = [perr EXCEPT ![c] = e]
          /\ lines' = [lines EXCEPT ![c] =
                          IF r.err = NoErr /\ ~p.blank THEN Append(@, r.line) ELSE @]
          /\ headers' = [headers EXCEPT ![c] =
                            IF e = NoErr /\ ~p.blank THEN StoreHeader(@, p.key, p.value) ELSE @]
          /\ pc' = [pc EXCEPT ![c] =
                       IF e # NoErr THEN "parse_exit"
                       ELSE IF p.blank THEN "content_length" ELSE "read_header"]
    /\ UNCHANGED <<toSend, eof, recv, method, url, length, got, body, req, reqLine,
                   poolVars, writeVars, ctlVars>>

\* return &Request{Method: method, URL: url, Headers: headers, Body: body}
NewRequest(c, b) ==
    <<[Method |-> method[c], URL |-> url[c], Headers |-> headers[c], Body |-> b]>>

\* Mutation of CheckContentLength: the header is looked up under its
\* lower-case name as well
CheckContentLengthAnyCase(c) ==
    /\ ~crashed /\ pc[c] = "content_length"
    /\ LET lower == <<"c", "o", "n", "t", "e", "n", "t", "-", "l", "e", "n", "g", "t", "h">>
           names == {ContentLengthName, lower} \cap DOMAIN headers[c]
       IN IF names = {}
          THEN /\ req' = [req EXCEPT ![c] = NewRequest(c, <<>>)]
               /\ pc' = [pc EXCEPT ![c] = "parse_exit"]
               /\ UNCHANGED <<perr, length>>
          ELSE LET a == Atoi(headers[c][CHOOSE k \in names : TRUE])
               IN IF ~a.ok
                  THEN /\ perr' = [perr EXCEPT ![c] = ErrContentLength]
                       /\ pc' = [pc EXCEPT ![c] = "parse_exit"]
                       /\ UNCHANGED <<req, length>>
                  ELSE /\ length' = [length EXCEPT ![c] = a.val]
                       /\ pc' = [pc EXCEPT ![c] = "pool_get"]
                       /\ UNCHANGED <<req, perr>>
    /\ UNCHANGED <<streamVars, method, url, headers, got, body, reqLine, lines,
                   poolVars, writeVars, ctlVars>>

\* if contentLength, ok := headers["Content-Length"]; ok { strconv.Atoi ... }
CheckContentLength(c) ==
    /\ ~crashed /\ pc[c] = "content_length"
    /\ IF ContentLengthName \notin DOMAIN headers[c]
       THEN /\ req' = [req EXCEPT ![c] = NewRequest(c, <<>>)]
            /\ pc' = [pc EXCEPT ![c] = "parse_exit"]
            /\ UNCHANGED <<perr, length>>
       ELSE LET a == Atoi(headers[c][ContentLengthName])
            IN IF ~a.ok
               THEN /\ perr' = [perr EXCEPT ![c] = ErrContentLength]
                    /\ pc' = [pc EXCEPT ![c] = "parse_exit"]
                    /\ UNCHANGED <<req, length>>
               ELSE /\ length' = [length EXCEPT ![c] = a.val]
                    /\ pc' = [pc EXCEPT ![c] = "pool_get"]
                    /\ UNCHANGED <<req, perr>>
    /\ UNCHANGED <<streamVars, method, url, headers, got, body, reqLine, lines,
                   poolVars, writeVars, ctlVars>>

(***************************************************************************)
(* bufferPool (sync.Pool) and the body read of parseRequest.               *)
(***************************************************************************)
\* a buffer neither in the pool nor held: memory New may allocate
Free(b) == pool[b] = 0 /\ \A d \in Conn : held[d] # b
PickFresh == CHOOSE b \in Bufs : Free(b) /\ \A x \in Bufs : Free(x) => b <= x

\* Mutation of PoolGet: the buffer is put back at once, `bufferPool.Put`
\* without the defer, and used afterwards
PoolGetPutBack(c) ==
    /\ ~crashed /\ pc[c] = "pool_get"
    /\ \E b \in Bufs :
          /\ \/ /\ pool[b] > 0
                /\ UNCHANGED bufData
             \/ /\ \E x \in Bufs : Free(x)
                /\ b = PickFresh
                /\ bufData' = [bufData EXCEPT ![b] = <<>>]
          /\ pool' = [pool EXCEPT ![b] = 1]
          /\ held' = [held EXCEPT ![c] = b]
          /\ gets' = [gets EXCEPT ![c] = Append(@, b)]
          /\ puts' = [puts EXCEPT ![c] = Append(@, b)]
    /\ pc' = [pc EXCEPT ![c] = "slice"]
    /\ UNCHANGED <<streamVars, parseVars, writeVars, ctlVars>>

\* bodyBuffer := bufferPool.Get().([]byte); defer bufferPool.Put(bodyBuffer)
\* Get removes an arbitrary pooled buffer, or calls New for a zeroed one
PoolGet(c) ==
    /\ ~crashed /\ pc[c] = "pool_get"
    /\ \E b \in Bufs :
          /\ \/ /\ pool[b] > 0
                /\ pool' = [pool EXCEPT ![b] = @ - 1]
                /\ UNCHANGED bufData
             \/ /\ \E x \in Bufs : Free(x)
                /\ b = PickFresh
                /\ bufData' = [bufData EXCEPT ![b] = <<>>]
                /\ UNCHANGED pool
          /\ held' = [held EXCEPT ![c] = b]
          /\ gets' = [gets EXCEPT ![c] = Append(@, b)]
    /\ deferred' = [deferred EXCEPT ![c] = <<"bufferPool.Put">> \o @]
    /\ pc' = [pc EXCEPT ![c] = "slice"]
    /\ UNCHANGED <<streamVars, parseVars, puts, writeVars, conns, panicking, crashed,
                   closed, parseCalls, dispatchCalls, writeCalls, logs>>

\* the garbage collector may drop what the pool holds
PoolGC ==
    /\ ~crashed
    /\ \E b \in Bufs : pool[b] > 0
    /\ pool' = [b \in Bufs |-> 0]
    /\ bufData' = [b \in Bufs |-> IF pool[b] > 0 /\ \A d \in Conn : held[d] # b
                                  THEN <<>> ELSE bufData[b]]
    /\ UNCHANGED <<streamVars, pc, parseVars, held, gets, puts, writeVars, ctlVars>>

\* bodyBuffer[:length] panics unless 0 <= length <= cap(bodyBuffer)
SliceInRange(n) == 0 <= n /\ n <= PoolBufCap

\* bodyBytes := bodyBuffer[:length]
SliceBuffer(c) ==
    /\ ~crashed /\ pc[c] = "slice"
    /\ IF SliceInRange(length[c])
       THEN /\ pc' = [pc EXCEPT ![c] = "read_full"]
            /\ UNCHANGED panicking
       ELSE /\ panicking' = [panicking EXCEPT ![c] = TRUE]
            /\ pc' = [pc EXCEPT ![c] = "parse_exit"]
    /\ got' = [got EXCEPT ![c] = 0]
    /\ UNCHANGED <<streamVars, perr, method, url, headers, length, body, req, reqLine,
                   lines, poolVars, writeVars, conns, deferred, crashed, closed, parseCalls,
                   dispatchCalls, writeCalls, logs>>

\* copy(buf[off:], chunk) on the written prefix of a buffer
Overwrite(data, off, chunk) ==
    [i \in 1..Max(Len(data), off + Len(chunk)) |->
        IF off < i /\ i <= off + Len(chunk) THEN chunk[i - off]
        ELSE IF i <= Len(data) THEN data[i] ELSE Zero]

\* io.ReadFull: one Read of the bytes that have arrived, into bodyBytes[got:]
ReadFullStep(c) ==
    /\ ~crashed /\ pc[c] = "read_full"
    /\ got[c] < length[c] /\ inbuf[c] # <<>>
    /\ LET k == Min(Len(inbuf[c]), length[c] - got[c])
       IN /\ bufData' = [bufData EXCEPT ![held[c]] =
                            Overwrite(@, got[c], SubSeq(inbuf[c], 1, k))]
          /\ inbuf' = [inbuf EXCEPT ![c] = SubSeq(@, k + 1, Len(@))]
          /\ got' = [got EXCEPT ![c] = @ + k]
    /\ UNCHANGED <<toSend, eof, recv, pc, perr, method, url, headers, length, body, req,
                   reqLine, lines, pool, held, gets, puts, writeVars, ctlVars>>

\* Mutation of ReadFullEOF: the error return leaves without releasing the
\* buffer, as a Put written after the read instead of deferred would
ReadFullEOFNoPut(c) ==
    /\ ~crashed /\ pc[c] = "read_full"
    /\ got[c] < length[c] /\ inbuf[c] = <<>> /\ eof[c]
    /\ perr' = [perr EXCEPT ![c] = IF got[c] = 0 THEN ErrEOF ELSE ErrUnexpectedEOF]
    /\ deferred' = [deferred EXCEPT ![c] = Tail(@)]
    /\ pc' = [pc EXCEPT ![c] = "parse_exit"]
    /\ UNCHANGED <<streamVars, method, url, headers, length, got, body, req, reqLine,
                   lines, poolVars, writeVars, conns, panicking, crashed, closed,
                   parseCalls, dispatchCalls, writeCalls, logs>>

\* io.ReadFull: the stream ended before len(bodyBytes) bytes were read
ReadFullEOF(c) ==
    /\ ~crashed /\ pc[c] = "read_full"
    /\ got[c] < length[c] /\ inbuf[c] = <<>> /\ eof[c]
    /\ perr' = [perr EXCEPT ![c] = IF got[c] = 0 THEN ErrEOF ELSE ErrUnexpectedEOF]
    /\ pc' = [pc EXCEPT ![c] = "parse_exit"]
    /\ UNCHANGED <<streamVars, method, url, headers, length, got, body, req, reqLine,
                   lines, poolVars, writeVars, ctlVars>>

\* Mutation of BodyString: the body is taken from one buffer that all the
\* connections share, not from the buffer this parseRequest holds
BodyStringSharedBuffer(c) == SubSeq(bufData[1], 1, length[c])

\* string(bodyBytes): a copy of the first length bytes of the buffer
BodyString(c) == SubSeq(bufData[held[c]], 1, length[c])

\* io.ReadFull returned nil: body = string(bodyBytes); return &Request{...}
ReadFullDone(c) ==
    /\ ~crashed /\ pc[c] = "read_full"
    /\ got[c] = length[c]
    /\ body' = [body EXCEPT ![c] = BodyString(c)]
    /\ req' = [req EXCEPT ![c] = NewRequest(c, BodyString(c))]
    /\ pc' = [pc EXCEPT ![c] = "parse_exit"]
    /\ UNCHANGED <<streamVars, perr, method, url, headers, length, got, reqLine, lines,
                   poolVars, writeVars, ctlVars>>

\* parseRequest's frame still has its deferred call to run
PutPending(c) == deferred[c] # <<>> /\ Head(deferred[c]) = "bufferPool.Put"

\* parseRequest returns or panics: its deferred bufferPool.Put(bodyBuffer) runs
DeferredPut(c) ==
    /\ ~crashed /\ pc[c] = "parse_exit"
    /\ PutPending(c)
    /\ pool' = [pool EXCEPT ![held[c]] = @ + 1]
    /\ puts' = [puts EXCEPT ![c] = Append(@, held[c])]
    /\ held' = [held EXCEPT ![c] = NoBuf]
    /\ deferred' = [deferred EXCEPT ![c] = Tail(@)]
    /\ UNCHANGED <<streamVars, pc, parseVars, bufData, gets, writeVars, conns,
                   panicking, crashed, closed, parseCalls, dispatchCalls, writeCalls,
                   logs>>

\* control is back in handleConnection: with (req, err), or with the panic
ParseReturn(c) ==
    /\ ~crashed /\ pc[c] = "parse_exit"
    /\ ~PutPending(c)
    /\ pc' = [pc EXCEPT ![c] = IF panicking[c] THEN "hc_exit" ELSE "parsed"]
    /\ UNCHANGED <<streamVars, parseVars, poolVars, writeVars, ctlVars>>

(***************************************************************************)
(* handleConnection after parseRequest, and writeErrorResponse.            *)
(***************************************************************************)
\* Mutation of ParseFailed: the error is answered with status 500
ParseFailedAs500(c) ==
    /\ ~crashed /\ pc[c] = "parsed" /\ perr[c] # NoErr
    /\ logs' = [logs EXCEPT ![c] = @ \cup {"Error parsing request"}]
    /\ res' = [res EXCEPT ![c] = <<ErrorResponse(500, BadRequestMsg)>>]
    /\ ret' = [ret EXCEPT ![c] = "writeErrorResponse"]
    /\ writeCalls' = [writeCalls EXCEPT ![c] = @ + 1]
    /\ pc' = [pc EXCEPT ![c] = "w_status"]
    /\ UNCHANGED <<streamVars, parseVars, poolVars, wtodo, werr, callErr, out, nwrites,
                   wfail, conns, deferred, panicking, crashed, closed, parseCalls,
                   dispatchCalls>>

\* Mutation of ParseFailed: a stream that ended before a request line was
\* read is closed without a response
ParseFailedSilentOnEOF(c) ==
    /\ ~crashed /\ pc[c] = "parsed" /\ perr[c] # NoErr
    /\ logs' = [logs EXCEPT ![c] = @ \cup {"Error parsing request"}]
    /\ IF reqLine[c] = <<>>
       THEN /\ pc' = [pc EXCEPT ![c] = "hc_exit"]
            /\ UNCHANGED <<res, ret, writeCalls>>
       ELSE /\ res' = [res EXCEPT ![c] = <<ErrorResponse(400, BadRequestMsg)>>]
            /\ ret' = [ret EXCEPT ![c] = "writeErrorResponse"]
            /\ writeCalls' = [writeCalls EXCEPT ![c] = @ + 1]
            /\ pc' = [pc EXCEPT ![c] = "w_status"]
    /\ UNCHANGED <<streamVars, parseVars, poolVars, wtodo, werr, callErr, out, nwrites,
                   wfail, conns, deferred, panicking, crashed, closed, parseCalls,
                   dispatchCalls>>

\* err != nil: log it and call writeErrorResponse(conn, 400, "Bad Request"),
\* which builds its Response and calls writeResponse
ParseFailed(c) ==
    /\ ~crashed /\ pc[c] = "parsed" /\ perr[c] # NoErr
    /\ logs' = [logs EXCEPT ![c] = @ \cup {"Error parsing request"}]
    /\ res' = [res EXCEPT ![c] = <<ErrorResponse(400, BadRequestMsg)>>]
    /\ ret' = [ret EXCEPT ![c] = "writeErrorResponse"]
    /\ writeCalls' = [writeCalls EXCEPT ![c] = @ + 1]
    /\ pc' = [pc EXCEPT ![c] = "w_status"]
    /\ UNCHANGED <<streamVars, parseVars, poolVars, wtodo, werr, callErr, out, nwrites,
                   wfail, conns, deferred, panicking, crashed, closed, parseCalls,
                   dispatchCalls>>

\* res := handleRequest(req)
Dispatch(c) ==
    /\ ~crashed /\ pc[c] = "parsed" /\ perr[c] = NoErr
    /\ res' = [res EXCEPT ![c] = <<handleRequest(req[c][1])>>]
    /\ dispatchCalls' = [dispatchCalls EXCEPT ![c] = @ + 1]
    /\ pc' = [pc EXCEPT ![c] = "respond"]
    /\ UNCHANGED <<streamVars, parseVars, poolVars, ret, wtodo, werr, callErr, out,
                   nwrites, wfail, conns, deferred, panicking, crashed, closed,
                   parseCalls, writeCalls, logs>>

\* err = writeResponse(conn, res)
Respond(c) ==
    /\ ~crashed /\ pc[c] = "respond"
    /\ ret' = [ret EXCEPT ![c] = "handleConnection"]
    /\ writeCalls' = [writeCalls EXCEPT ![c] = @ + 1]
    /\ pc' = [pc EXCEPT ![c] = "w_status"]
    /\ UNCHANGED <<streamVars, parseVars, poolVars, res, wtodo, werr, callErr, out,
                   nwrites, wfail, conns, deferred, panicking, crashed, closed,
                   parseCalls, dispatchCalls, logs>>

(***************************************************************************)
(* writeResponse.                                                          *)
(***************************************************************************)
\* conn.Write(b) wrote all of b and returned nil
ConnWriteOk(c, b, next) ==
    /\ out' = [out EXCEPT ![c] = @ \o b]
    /\ nwrites' = [nwrites EXCEPT ![c] = @ + 1]
    /\ pc' = [pc EXCEPT ![c] = next]
    /\ UNCHANGED <<werr, wfail>>

\* Mutation of ConnWriteFail: the error of conn.Write is dropped and
\* writeResponse goes on to its next write
ConnWriteFailIgnored(c, b, next) ==
    \E e \in WriteErrors, n \in 0..Min(MaxPartialWrite, Max(Len(b) - 1, 0)) :
        /\ out' = [out EXCEPT ![c] = @ \o SubSeq(b, 1, n)]
        /\ nwrites' = [nwrites EXCEPT ![c] = @ + 1]
        /\ wfail' = [wfail EXCEPT ![c] = e]
        /\ pc' = [pc EXCEPT ![c] = next]
        /\ UNCHANGED werr

\* conn.Write(b) wrote less than b and returned an error: `return err`
ConnWriteFail(c, b, next) ==
    \E e \in WriteErrors, n \in 0..Min(MaxPartialWrite, Max(Len(b) - 1, 0)) :
        /\ out' = [out EXCEPT ![c] = @ \o SubSeq(b, 1, n)]
        /\ nwrites' = [nwrites EXCEPT ![c] = @ + 1]
        /\ wfail' = [wfail EXCEPT ![c] = e]
        /\ werr' = [werr EXCEPT ![c] = e]
        /\ pc' = [pc EXCEPT ![c] = "w_ret"]

ConnWrite(c, b, next) == ConnWriteOk(c, b, next) \/ ConnWriteFail(c, b, next)

\* conn.Write([]byte(statusLine))
WriteStatusLine(c) ==
    /\ ~crashed /\ pc[c] = "w_status"
    /\ ConnWrite(c, StatusLine(res[c][1]), "w_headers")
    /\ wtodo' = [wtodo EXCEPT ![c] = DOMAIN res[c][1].Headers]
    /\ UNCHANGED <<streamVars, parseVars, poolVars, res, ret, callErr, ctlVars>>

\* one iteration of `for key, value := range res.Headers`, in the map's order
WriteHeader(c) ==
    /\ ~crashed /\ pc[c] = "w_headers"
    /\ \E key \in wtodo[c] :
          /\ ConnWrite(c, HeaderLine(key, res[c][1].Headers[key]), "w_headers")
          /\ wtodo' = [wtodo EXCEPT ![c] = @ \ {key}]
    /\ UNCHANGED <<streamVars, parseVars, poolVars, res, ret, callErr, ctlVars>>

\* conn.Write([]byte("\r\n"))
WriteBlankLine(c) ==
    /\ ~crashed /\ pc[c] = "w_headers" /\ wtodo[c] = {}
    /\ ConnWrite(c, CRLF, "w_body")
    /\ UNCHANGED <<streamVars, parseVars, poolVars, res, ret, wtodo, callErr, ctlVars>>

\* Mutation of WriteBody: the body is written with a line terminator
WriteBodyThenCRLF(c) ==
    /\ ~crashed /\ pc[c] = "w_body"
    /\ ConnWrite(c, res[c][1].Body \o CRLF, "w_ret")
    /\ UNCHANGED <<streamVars, parseVars, poolVars, res, ret, wtodo, callErr, ctlVars>>

\* _, err = conn.Write([]byte(res.Body)); return err
WriteBody(c) ==
    /\ ~crashed /\ pc[c] = "w_body"
    /\ ConnWrite(c, res[c][1].Body, "w_ret")
    /\ UNCHANGED <<streamVars, parseVars, poolVars, res, ret, wtodo, callErr, ctlVars>>

\* writeResponse returns werr to its caller
WriteReturn(c) ==
    /\ ~crashed /\ pc[c] = "w_ret"
    /\ callErr' = [callErr EXCEPT ![c] = werr[c]]
    /\ pc' = [pc EXCEPT ![c] =
                 CASE ret[c] = "handleConnection" -> "hc_written"
                   [] ret[c] = "writeErrorResponse" -> "wer_written"
                   [] OTHER -> "caller_done"]
    /\ UNCHANGED <<streamVars, parseVars, poolVars, res, ret, wtodo, werr, out,
                   nwrites, wfail, ctlVars>>

\* writeErrorResponse logs a failed write and returns; handleConnection returns
ErrorResponseDone(c) ==
    /\ ~crashed /\ pc[c] = "wer_written"
    /\ logs' = [logs EXCEPT ![c] =
                   IF callErr[c] # NoErr THEN @ \cup {"Error writing error response"} ELSE @]
    /\ pc' = [pc EXCEPT ![c] = "hc_exit"]
    /\ UNCHANGED <<streamVars, parseVars, poolVars, writeVars, conns, deferred,
                   panicking, crashed, closed, parseCalls, dispatchCalls, writeCalls>>

\* Mutation of ResponseDone: a failed write is tried once more
ResponseDoneRetry(c) ==
    /\ ~crashed /\ pc[c] = "hc_written"
    /\ logs' = [logs EXCEPT ![c] =
                   IF callErr[c] # NoErr THEN @ \cup {"Error writing response"} ELSE @]
    /\ pc' = [pc EXCEPT ![c] =
                 IF callErr[c] # NoErr /\ writeCalls[c] < 2 THEN "respond" ELSE "hc_exit"]
    /\ UNCHANGED <<streamVars, parseVars, poolVars, writeVars, conns, deferred,
                   panicking, crashed, closed, parseCalls, dispatchCalls, writeCalls>>

\* handleConnection logs a failed write and falls off its end
ResponseDone(c) ==
    /\ ~crashed /\ pc[c] = "hc_written"
    /\ logs' = [logs EXCEPT ![c] =
                   IF callErr[c] # NoErr THEN @ \cup {"Error writing response"} ELSE @]
    /\ pc' = [pc EXCEPT ![c] = "hc_exit"]
    /\ UNCHANGED <<streamVars, parseVars, poolVars, writeVars, conns, deferred,
                   panicking, crashed, closed, parseCalls, dispatchCalls, writeCalls>>

\* handleConnection returns or panics: its deferred conn.Close() runs
DeferredClose(c) ==
    /\ ~crashed /\ pc[c] = "hc_exit"
    /\ deferred[c] # <<>> /\ Head(deferred[c]) = "conn.Close"
    /\ closed' = [closed EXCEPT ![c] = @ + 1]
    /\ deferred' = [deferred EXCEPT ![c] = Tail(@)]
    /\ UNCHANGED <<streamVars, pc, parseVars, poolVars, writeVars, conns, panicking,
                   crashed, parseCalls, dispatchCalls, writeCalls, logs>>

\* the goroutine ends; an unrecovered panic ends the whole process
HandlerExit(c) ==
    /\ ~crashed /\ pc[c] = "hc_exit" /\ deferred[c] = <<>>
    /\ pc' = [pc EXCEPT ![c] = IF panicking[c] THEN "crashed" ELSE "done"]
    /\ crashed' = panicking[c]
    /\ UNCHANGED <<streamVars, parseVars, poolVars, writeVars, conns, deferred,
                   panicking, closed, parseCalls, dispatchCalls, writeCalls, logs>>

(***************************************************************************)
(* Specifications.                                                         *)
(***************************************************************************)
Next ==
    \/ PoolGC
    \/ \E c \in Conn :
          \/ ClientSend(c) \/ ClientClose(c)
          \/ Start(c) \/ ReadRequestLine(c) \/ ReadHeaderLine(c) \/ CheckContentLength(c)
          \/ PoolGet(c) \/ SliceBuffer(c)
          \/ ReadFullStep(c) \/ ReadFullEOF(c) \/ ReadFullDone(c)
          \/ DeferredPut(c) \/ ParseReturn(c)
          \/ ParseFailed(c) \/ Dispatch(c) \/ Respond(c)
          \/ WriteStatusLine(c) \/ WriteHeader(c) \/ WriteBlankLine(c) \/ WriteBody(c)
          \/ WriteReturn(c) \/ ErrorResponseDone(c) \/ ResponseDone(c)
          \/ DeferredClose(c) \/ HandlerExit(c)

\* one connection, every request of Requests
Spec == Init /\ [][Next]_vars

PoolNext ==
    \/ PoolGC
    \/ \E c \in Conn :
          \/ Start(c) \/ ReadRequestLine(c) \/ ReadHeaderLine(c) \/ CheckContentLength(c)
          \/ PoolGet(c) \/ SliceBuffer(c) \/ ReadFullStep(c) \/ ReadFullDone(c)
          \/ DeferredPut(c) \/ ParseReturn(c)

\* NumConns concurrent connections, up to the return of parseRequest, the
\* only user of bufferPool; their clients keep the connections open
PoolSpec == PoolInit /\ [][PoolNext]_vars

ServerNext ==
    \/ PoolGC
    \/ \E c \in Conn :
          \/ Start(c) \/ ReadRequestLine(c) \/ ReadHeaderLine(c) \/ CheckContentLength(c)
          \/ PoolGet(c) \/ SliceBuffer(c) \/ ReadFullStep(c) \/ ReadFullDone(c)
          \/ DeferredPut(c) \/ ParseReturn(c)
          \/ ParseFailed(c) \/ Dispatch(c) \/ Respond(c)
          \/ WriteStatusLine(c) \/ WriteHeader(c) \/ WriteBlankLine(c) \/ WriteBody(c)
          \/ WriteReturn(c) \/ ErrorResponseDone(c) \/ ResponseDone(c)
          \/ DeferredClose(c) \/ HandlerExit(c)

\* NumConns concurrent connections, each running the whole of
\* handleConnection; their clients keep the connections open
ServerSpec == ServerInit /\ [][ServerNext]_vars

ParseNext ==
    \/ PoolGC
    \/ \E c \in Conn :
          \/ ReadRequestLine(c) \/ ReadHeaderLine(c) \/ CheckContentLength(c)
          \/ PoolGet(c) \/ SliceBuffer(c)
          \/ ReadFullStep(c) \/ ReadFullEOF(c) \/ ReadFullDone(c)
          \/ DeferredPut(c) \/ ParseReturn(c)

\* parseRequest alone, on every request of ParseRequests
ParseSpec == ParseInit /\ [][ParseNext]_vars

WriteNext ==
    \E c \in Conn :
        \/ WriteStatusLine(c) \/ WriteHeader(c) \/ WriteBlankLine(c) \/ WriteBody(c)
        \/ WriteReturn(c)

\* writeResponse alone, on every Response of Responses
WriteSpec == WriteInit /\ [][WriteNext]_vars

(***************************************************************************)
(* Properties.                                                             *)
(***************************************************************************)
\* the goroutine of connection c has ended
Finished(c) == pc[c] \in {"done", "crashed"}

\* parseRequest has returned to handleConnection
HandlerResumed(c) ==
    pc[c] \in {"parsed", "respond", "w_status", "w_headers", "w_body", "w_ret",
               "hc_written", "wer_written", "hc_exit", "done", "crashed"}

\* writeResponse has returned to handleConnection or writeErrorResponse
Written(c) == pc[c] \in {"hc_written", "wer_written", "hc_exit", "done"}

IsPrefix(p, s) == Len(p) <= Len(s) /\ SubSeq(s, 1, Len(p)) = p

\* the bytes of the error response on the wire
BadRequestWire ==
    <<"H", "T", "T", "P", "/", "1", ".", "1", " ", "4", "0", "0", " ", "B", "a", "d",
      " ", "R", "e", "q", "u", "e", "s", "t", "\r", "\n", "C", "o", "n", "t", "e", "n",
      "t", "-", "T", "y", "p", "e", ":", " ", "t", "e", "x", "t", "/", "p", "l", "a",
      "i", "n", "\r", "\n", "\r", "\n", "B", "a", "d", " ", "R", "e", "q", "u", "e",
      "s", "t">>

\* C1: whatever the outcome of parsing, dispatch and writing, the connection
\* is closed by the time handleConnection finishes, and conn.Close is called
\* exactly once.
C1_ClosedExactlyOnce ==
    \A c \in conns :
        /\ closed[c] <= 1
        /\ Finished(c) => closed[c] = 1

\* C1 witness: a handler that failed to parse and failed to write has ended
\* with its connection closed.
C1_Witness ==
    \E c \in conns : pc[c] = "done" /\ perr[c] # NoErr /\ wfail[c] # NoErr /\ closed[c] = 1

\* C2: after a protocol-syntax error of parseRequest the handler is never
\* dispatched to, what is written is the 400 response "Bad Request" (all of
\* it unless a conn.Write fails, and never anything else).
C2_SyntaxErrorAnswered400 ==
    \A c \in conns :
        perr[c] \in SyntaxErrors =>
            /\ dispatchCalls[c] = 0
            /\ pc[c] \notin {"respond", "hc_written"}
            /\ IsPrefix(out[c], BadRequestWire)
            /\ Written(c) =>
                  /\ writeCalls[c] = 1
                  /\ wfail[c] = NoErr => out[c] = BadRequestWire

\* C2 witness: a malformed header line was answered with the whole 400
\* response.
C2_Witness ==
    \E c \in conns :
        perr[c] = ErrHeaderLine /\ pc[c] = "done" /\ out[c] = BadRequestWire

\* the stream failed before a full request line was read
EarlyStreamError(c) == perr[c] = ErrEOF /\ reqLine[c] = <<>>

\* C3 as stated: a stream error before a full request line is available
\* makes handleConnection write nothing to the connection.
C3_NoResponseOnEarlyStreamError ==
    \A c \in conns : EarlyStreamError(c) => (nwrites[c] = 0 /\ out[c] = <<>>)

\* C3 amended: a stream error before a full request line is available is
\* handled as every other parse failure: no dispatch, and one attempt to
\* write the 400 response "Bad Request" before the connection is closed.
C3_EarlyStreamErrorAnswered400 ==
    \A c \in conns :
        EarlyStreamError(c) =>
            /\ dispatchCalls[c] = 0
            /\ IsPrefix(out[c], BadRequestWire)
            /\ Written(c) =>
                  /\ writeCalls[c] = 1
                  /\ nwrites[c] >= 1
                  /\ wfail[c] = NoErr => out[c] = BadRequestWire
            /\ Finished(c) => closed[c] = 1

\* C3 witness: the client closed before sending a line terminator and the
\* handler wrote the whole 400 response.
C3_Witness ==
    \E c \in conns : EarlyStreamError(c) /\ pc[c] = "done" /\ out[c] = BadRequestWire

\* C4: with a Content-Length above the capacity of the pooled buffer,
\* parseRequest does not panic: it returns an error, or a Request whose body
\* has the declared number of bytes.
C4_LargeBodyNoPanic ==
    \A c \in conns :
        length[c] > PoolBufCap =>
            /\ ~panicking[c]
            /\ ~crashed
            /\ pc[c] = "parsed" =>
                  \/ perr[c] # NoErr
                  \/ req[c] # <<>> /\ Len(req[c][1].Body) = length[c]

\* C5: a connection carries at most one exchange: parseRequest and
\* writeResponse are each called at most once, and a failed write is logged
\* and followed by no other write.
C5_OneExchange ==
    \A c \in conns :
        /\ parseCalls[c] <= 1
        /\ writeCalls[c] <= 1
        /\ writeCalls[c] = 1 => (dispatchCalls[c] = 1) # (perr[c] # NoErr)
        /\ (pc[c] \in {"hc_exit", "done"} /\ wfail[c] # NoErr) =>
              {"Error writing response", "Error writing error response"} \cap logs[c] # {}

\* C5 witness: the handler's response failed to write and the handler ended
\* after that one call of writeResponse.
C5_Witness ==
    \E c \in conns :
        /\ pc[c] = "done" /\ perr[c] = NoErr /\ wfail[c] # NoErr
        /\ writeCalls[c] = 1 /\ "Error writing response" \in logs[c]

\* C6: under every interleaving of the Get and Put calls of concurrent
\* handlers no buffer is held by two handlers at once, and a buffer that a
\* handler holds is not in the pool to be handed out again.
C6_NoSharedBuffer ==
    /\ \A c, d \in conns : (c # d /\ held[c] # NoBuf) => held[c] # held[d]
    /\ \A c \in conns : held[c] # NoBuf => pool[held[c]] = 0
    /\ \A b \in Bufs : pool[b] <= 1

\* C6 witness: two handlers hold buffers at once, one of them the buffer an
\* earlier connection had released to the pool.
C6_Witness ==
    \E c, d \in conns :
        /\ c # d /\ held[c] # NoBuf /\ held[d] # NoBuf
        /\ bufData[held[c]] = StaleData

\* C7: every buffer parseRequest acquires is released exactly once before
\* parseRequest finishes, on the success path and on every error path; a parse
\* without a Content-Length header, or with an invalid one, acquires and
\* releases none.
C7_ReleasedExactlyOnce ==
    \A c \in conns :
        /\ Len(gets[c]) <= 1
        /\ IsPrefix(puts[c], gets[c])
        /\ held[c] = (IF puts[c] = gets[c] THEN NoBuf ELSE gets[c][1])
        /\ HandlerResumed(c) => puts[c] = gets[c]
        /\ (ContentLengthName \notin DOMAIN headers[c] \/ perr[c] = ErrContentLength) =>
              (gets[c] = <<>> /\ puts[c] = <<>>)

\* C7 witness: a short body read failed and the buffer was back in the pool
\* when parseRequest returned its error.
C7_Witness ==
    \E c \in conns :
        /\ pc[c] = "parsed" /\ perr[c] = ErrUnexpectedEOF
        /\ Len(gets[c]) = 1 /\ puts[c] = gets[c]

\* the status lines on the wire
Wire200 ==
    <<"H", "T", "T", "P", "/", "1", ".", "1", " ", "2", "0", "0", " ", "O", "K", "\r",
      "\n">>
Wire400 ==
    <<"H", "T", "T", "P", "/", "1", ".", "1", " ", "4", "0", "0", " ", "B", "a", "d",
      " ", "R", "e", "q", "u", "e", "s", "t", "\r", "\n">>
Wire404 ==
    <<"H", "T", "T", "P", "/", "1", ".", "1", " ", "4", "0", "4", " ", "N", "o", "t",
      " ", "F", "o", "u", "n", "d", "\r", "\n">>
Wire500 ==
    <<"H", "T", "T", "P", "/", "1", ".", "1", " ", "5", "0", "0", " ", "I", "n", "t",
      "e", "r", "n", "a", "l", " ", "S", "e", "r", "v", "e", "r", " ", "E", "r", "r",
      "o", "r", "\r", "\n">>
Wire201 ==
    <<"H", "T", "T", "P", "/", "1", ".", "1", " ", "2", "0", "1", " ", "U", "n", "k",
      "n", "o", "w", "n", " ", "S", "t", "a", "t", "u", "s", "\r", "\n">>

ExpectedStatusLine(code) ==
    CASE code = 200 -> Wire200
      [] code = 400 -> Wire400
      [] code = 404 -> Wire404
      [] code = 500 -> Wire500
      [] code = 201 -> Wire201

\* the orders in which a set of header names can be written
Orders(keys) ==
    {o \in [1..Cardinality(keys) -> keys] : \A i, j \in DOMAIN o : i # j => o[i] # o[j]}

RECURSIVE HeaderBlock(_, _)
HeaderBlock(h, o) ==
    IF o = <<>> THEN <<>>
    ELSE Head(o) \o <<":", " ">> \o h[Head(o)] \o <<"\r", "\n">> \o HeaderBlock(h, Tail(o))

\* C8: a successful writeResponse has written the status line, then each
\* header of the Response once and no other, then the blank line, then the
\* body and nothing after it.
C8_WireFormat ==
    \A c \in conns :
        (pc[c] \in {"w_ret", "caller_done"} /\ werr[c] = NoErr) =>
            \E o \in Orders(DOMAIN res[c][1].Headers) :
                out[c] = ExpectedStatusLine(res[c][1].StatusCode)
                           \o HeaderBlock(res[c][1].Headers, o)
                           \o <<"\r", "\n">> \o res[c][1].Body

\* C8 witness: a Response with two headers and a body was written in full.
C8_Witness ==
    \E c \in conns :
        /\ pc[c] = "caller_done" /\ callErr[c] = NoErr
        /\ Cardinality(DOMAIN res[c][1].Headers) = 2 /\ res[c][1].Body # <<>>
        /\ nwrites[c] = 5

\* C9: once a conn.Write of writeResponse has failed, that call writes no
\* more to the stream, and what the caller receives is that error (nil when
\* no write failed).
C9_FailureAborts ==
    [][\A c \in conns :
          /\ wfail[c] # NoErr => (out'[c] = out[c] /\ nwrites'[c] = nwrites[c])
          /\ pc'[c] = "caller_done" => callErr'[c] = wfail'[c]]_vars

\* C9 witness: the write of a header line failed and the caller has that
\* error after two calls of conn.Write.
C9_Witness ==
    \E c \in conns :
        /\ pc[c] = "caller_done" /\ callErr[c] \in WriteErrors
        /\ nwrites[c] = 2 /\ wtodo[c] # {}

\* the header name and value of a header line as read
LineName(l) == SubSeq(TrimSpace(l), 1, Index(TrimSpace(l), <<":", " ">>) - 1)
LineValue(l) ==
    SubSeq(TrimSpace(l), Index(TrimSpace(l), <<":", " ">>) + 2, Len(TrimSpace(l)))
WellFormedLine(l) == Index(TrimSpace(l), <<":", " ">>) > 0

\* the mapping of a sequence of header lines: for each name, the value of
\* the last line with that name
LastWins(ls) ==
    [k \in {LineName(ls[i]) : i \in 1..Len(ls)} |->
        LineValue(ls[CHOOSE i \in 1..Len(ls) :
                        /\ LineName(ls[i]) = k
                        /\ \A j \in 1..Len(ls) : LineName(ls[j]) = k => j <= i])]

\* C10: when every header line read is well formed, the header mapping holds
\* for exactly the names that occur the value of the last line with that
\* name, and so does the Request returned; when a header line is malformed
\* parsing ends with the malformed-header error and no Request.
C10_HeadersLastWins ==
    \A c \in conns :
        IF \A i \in 1..Len(lines[c]) : WellFormedLine(lines[c][i])
        THEN /\ headers[c] = LastWins(lines[c])
             /\ req[c] # <<>> => req[c][1].Headers = LastWins(lines[c])
        ELSE perr[c] = ErrHeaderLine /\ req[c] = <<>>

\* C10 witness: a Request was returned for two header lines of the same name
\* and different values, and holds the second value.
C10_Witness ==
    \E c \in conns :
        /\ pc[c] = "parsed" /\ req[c] # <<>> /\ Len(lines[c]) = 2
        /\ LineName(lines[c][1]) = LineName(lines[c][2])
        /\ LineValue(lines[c][1]) # LineValue(lines[c][2])
        /\ req[c][1].Headers[LineName(lines[c][1])] = LineValue(lines[c][2])

\* a line as read without its terminator: the "\n", and a "\r" before it
StripEOL(l) ==
    LET a == IF l # <<>> /\ l[Len(l)] = "\n" THEN SubSeq(l, 1, Len(l) - 1) ELSE l
    IN IF a # <<>> /\ a[Len(a)] = "\r" THEN SubSeq(a, 1, Len(a) - 1) ELSE a

\* the tokens of a text between its single spaces, counted and cut by the
\* positions of the spaces
SpacesOf(t) == {i \in 1..Len(t) : t[i] = " "}
ThreeTokens(t) == Cardinality(SpacesOf(t)) = 2
FirstSpace(t) == CHOOSE i \in SpacesOf(t) : \A j \in SpacesOf(t) : i <= j
LastSpace(t) == CHOOSE i \in SpacesOf(t) : \A j \in SpacesOf(t) : j <= i
Token1(t) == SubSeq(t, 1, FirstSpace(t) - 1)
Token2(t) == SubSeq(t, FirstSpace(t) + 1, LastSpace(t) - 1)

\* C11 as stated: the request line as read, without its line terminator, is
\* rejected with the malformed-request-line error exactly when it does not
\* have three tokens between single spaces; otherwise Method is its first
\* token and URL its second.
C11_ThreeTokensOfLineAsRead ==
    \A c \in conns :
        reqLine[c] # <<>> =>
            LET t == StripEOL(reqLine[c][1])
            IN /\ perr[c] = ErrRequestLine <=> ~ThreeTokens(t)
               /\ ThreeTokens(t) => (method[c] = Token1(t) /\ url[c] = Token2(t))

\* C11 amended: the request line with its leading and trailing white space
\* trimmed is rejected with the malformed-request-line error exactly when it
\* does not have three tokens between single spaces; otherwise Method is its
\* first token and URL its second, whatever the third token is, and the
\* Request returned carries them.
C11_ThreeTokensOfTrimmedLine ==
    \A c \in conns :
        reqLine[c] # <<>> =>
            LET t == TrimSpace(reqLine[c][1])
            IN /\ perr[c] = ErrRequestLine <=> ~ThreeTokens(t)
               /\ ThreeTokens(t) => (method[c] = Token1(t) /\ url[c] = Token2(t))
               /\ req[c] # <<>> =>
                     (req[c][1].Method = Token1(t) /\ req[c][1].URL = Token2(t))

\* C11 witness: a line that has three tokens as read and two once trimmed
\* was rejected as malformed and the handler has finished.
C11_Witness ==
    \E c \in conns :
        /\ reqLine[c] # <<>> /\ pc[c] = "done" /\ perr[c] = ErrRequestLine
        /\ ThreeTokens(StripEOL(reqLine[c][1]))
        /\ ~ThreeTokens(TrimSpace(reqLine[c][1]))

\* C18 as stated: a request line that, as read, has three tokens between
\* single spaces of which the method or the target is empty is accepted, and
\* the Request carries the empty token.
C18_EmptyTokenAccepted ==
    \A c \in conns :
        reqLine[c] # <<>> =>
            LET t == StripEOL(reqLine[c][1])
            IN (ThreeTokens(t) /\ (Token1(t) = <<>> \/ Token2(t) = <<>>)) =>
                  /\ perr[c] # ErrRequestLine
                  /\ method[c] = Token1(t) /\ url[c] = Token2(t)
                  /\ req[c] # <<>> =>
                        (req[c][1].Method = Token1(t) /\ req[c][1].URL = Token2(t))

\* C18 amended: a request line that, once trimmed, has three tokens of which
\* the target is empty is accepted and the Request carries the empty URL; a
\* line that as read has three tokens of which the method is empty is
\* rejected as malformed, and the method of an accepted line is never empty.
C18_EmptyTargetAcceptedEmptyMethodRejected ==
    \A c \in conns :
        reqLine[c] # <<>> =>
            LET t == TrimSpace(reqLine[c][1])
                r == StripEOL(reqLine[c][1])
            IN /\ (ThreeTokens(t) /\ Token2(t) = <<>>) =>
                     /\ perr[c] # ErrRequestLine
                     /\ method[c] = Token1(t) /\ url[c] = <<>>
                     /\ req[c] # <<>> => req[c][1].URL = <<>>
               /\ (ThreeTokens(r) /\ Token1(r) = <<>>) =>
                     (perr[c] = ErrRequestLine /\ req[c] = <<>>)
               /\ perr[c] # ErrRequestLine => method[c] # <<>>

\* C18 witness: a Request with an empty URL was returned, dispatched and
\* answered.
C18_Witness ==
    \E c \in conns :
        /\ reqLine[c] # <<>> /\ ThreeTokens(TrimSpace(reqLine[c][1]))
        /\ Token2(TrimSpace(reqLine[c][1])) = <<>>
        /\ pc[c] = "done" /\ req[c] # <<>> /\ req[c][1].URL = <<>>
        /\ dispatchCalls[c] = 1

\* the bytes parseRequest has taken from the stream for the request line and
\* the header section, and what follows the header lines in them
HeadConsumed(c) == SubSeq(recv[c], 1, Len(recv[c]) - Len(inbuf[c]) - got[c])
AfterHeaderLines(c) ==
    SubSeq(HeadConsumed(c),
           Len(reqLine[c][1] \o JoinLines(lines[c], <<>>)) + 1, Len(HeadConsumed(c)))

\* parseRequest has read the blank line that ends the header section
BlankLineRead(c) ==
    /\ reqLine[c] # <<>> /\ pc[c] # "read_header"
    /\ AfterHeaderLines(c) # <<>>
    /\ AfterHeaderLines(c)[Len(AfterHeaderLines(c))] = "\n"
    /\ TrimSpace(AfterHeaderLines(c)) = <<>>

HasContentLength(c) == ContentLengthName \in DOMAIN headers[c]
ReadErrors == {ErrEOF, ErrUnexpectedEOF}

\* C12: when the header section declared n body bytes and the stream has
\* ended with fewer than n of them, parseRequest has returned a stream read
\* error, which is none of the syntax errors, and no Request.
C12_ShortBodyIsReadFailure ==
    \A c \in conns :
        ( /\ HandlerResumed(c) /\ BlankLineRead(c) /\ HasContentLength(c)
          /\ length[c] > 0 /\ eof[c] /\ got[c] + Len(inbuf[c]) < length[c] ) =>
            /\ perr[c] \in ReadErrors /\ perr[c] \notin SyntaxErrors
            /\ req[c] = <<>>
            /\ ~panicking[c] /\ ~crashed

\* a text that is a non-negative integer: one or more decimal digits
IsNonNegInt(s) == s # <<>> /\ \A i \in 1..Len(s) : IsDigit(s[i])

\* C13: once parseRequest is over, a Content-Length value that is not a
\* non-negative integer has made it return the invalid-Content-Length error,
\* and a body read was started only with a length that is the non-negative
\* integer of the header.
C13_OnlyNonNegativeContentLength ==
    \A c \in conns :
        (BlankLineRead(c) /\ HasContentLength(c)) =>
            LET v == headers[c][ContentLengthName]
            IN /\ (HandlerResumed(c) /\ ~IsNonNegInt(v)) =>
                     (perr[c] = ErrContentLength /\ req[c] = <<>>)
               /\ (pc[c] = "read_full" \/ got[c] > 0) =>
                     (IsNonNegInt(v) /\ length[c] >= 0 /\ length[c] = DigitsVal(v))

\* the same for the lengths a pooled buffer can take, 0 < n <= 4096
ShortBodyWithinCapacity ==
    \A c \in conns :
        ( /\ HandlerResumed(c) /\ BlankLineRead(c) /\ HasContentLength(c)
          /\ length[c] > 0 /\ length[c] <= PoolBufCap
          /\ eof[c] /\ got[c] + Len(inbuf[c]) < length[c] ) =>
            /\ perr[c] \in ReadErrors /\ req[c] = <<>> /\ ~panicking[c]

\* well-formed requests, by what they ask for: the root page, a greeting
\* without a Name header, a greeting for "Go", a page that does not exist
RootRequests == {Wire(LineRoot, <<>>, eol, <<>>) : eol \in {CRLF, LF}}
HelloWorldRequests ==
    {Wire(LineHello, <<>>, eol, <<>>) : eol \in {CRLF, LF}}
      \cup {Wire(LineHello, <<HdrLen0>>, CRLF, <<>>), Wire(LineHello, <<HdrLen2>>, CRLF, BodyAB),
            BigRequest}
HelloGoRequest == Wire(LineHello, <<HdrNameGo>>, CRLF, <<>>)
NotFoundRequests == {Wire(LineNotFound, <<>>, eol, <<>>) : eol \in {CRLF, LF}}

HelloWorldBody ==
    <<"H", "e", "l", "l", "o", ",", " ", "W", "o", "r", "l", "d", "!">>
IsSuffix(t, s) == Len(t) <= Len(s) /\ SubSeq(s, Len(s) - Len(t) + 1, Len(s)) = t

\* the connection received exactly the request r, the handler is over and
\* no write to the connection failed
Served(c, r) == recv[c] = r /\ Finished(c) /\ wfail[c] = NoErr

\* C14: the response to a well-formed request starts with the status line
\* of 200 for "/" and for "/hello", and of 404 for any other target; the
\* response for "/hello" ends with the greeting of the Name header's value,
\* or of "World" without that header.
C14_Routing ==
    \A c \in conns :
        /\ \A r \in RootRequests : Served(c, r) => IsPrefix(Wire200, out[c])
        /\ \A r \in HelloWorldRequests :
              Served(c, r) => (IsPrefix(Wire200, out[c]) /\ IsSuffix(HelloWorldBody, out[c]))
        /\ Served(c, HelloGoRequest) =>
              (IsPrefix(Wire200, out[c]) /\ IsSuffix(HelloGoBody, out[c]))
        /\ \A r \in NotFoundRequests : Served(c, r) => IsPrefix(Wire404, out[c])

\* the same for the well-formed requests whose body fits a pooled buffer
RoutingWithinCapacity ==
    \A c \in conns :
        /\ \A r \in RootRequests : Served(c, r) => IsPrefix(Wire200, out[c])
        /\ \A r \in HelloWorldRequests \ {BigRequest} :
              Served(c, r) => (IsPrefix(Wire200, out[c]) /\ IsSuffix(HelloWorldBody, out[c]))
        /\ Served(c, HelloGoRequest) =>
              (IsPrefix(Wire200, out[c]) /\ IsSuffix(HelloGoBody, out[c]))
        /\ \A r \in NotFoundRequests : Served(c, r) => IsPrefix(Wire404, out[c])

\* what TestServer looks for in the bytes written: "HTTP/1.1 200 OK\r\nHello, Go!"
TestServerExpected == Wire200 \o HelloGoBody

\* C15: the bytes written in answer to "GET /hello HTTP/1.1\r\nName: Go\r\n\r\n"
\* contain the status line of 200 immediately followed by "Hello, Go!".
C15_StatusLineThenBody ==
    \A c \in conns : Served(c, HelloGoRequest) => Index(out[c], TestServerExpected) > 0

\* the bytes the handler does write in answer to that request
HelloGoWire ==
    <<"H", "T", "T", "P", "/", "1", ".", "1", " ", "2", "0", "0", " ", "O", "K", "\r",
      "\n", "C", "o", "n", "t", "e", "n", "t", "-", "T", "y", "p", "e", ":", " ", "t",
      "e", "x", "t", "/", "p", "l", "a", "i", "n", "\r", "\n", "\r", "\n", "H", "e",
      "l", "l", "o", ",", " ", "G", "o", "!">>
HelloGoAnswered ==
    \A c \in conns : Served(c, HelloGoRequest) => out[c] = HelloGoWire

\* the state of a connection in the spec's state machine
Phase(c) ==
    CASE pc[c] = "none" -> "NotAccepted"
      [] pc[c] = "accepted" -> "Accepted"
      [] pc[c] \in {"read_reqline", "read_header", "content_length", "pool_get", "slice",
                    "read_full", "parse_exit", "parsed"} -> "Parsing"
      [] pc[c] = "respond" -> "Dispatching"
      [] pc[c] \in {"w_status", "w_headers", "w_body", "w_ret", "hc_written",
                    "wer_written", "caller_done"} ->
            IF ret[c] = "handleConnection" THEN "Responding" ELSE "ErrorResponding"
      [] pc[c] = "hc_exit" /\ closed[c] = 0 ->
            IF panicking[c] THEN "Parsing"
            ELSE IF ret[c] = "handleConnection" THEN "Responding" ELSE "ErrorResponding"
      [] OTHER -> "Closed"

\* the transitions of the state machine
PhaseSteps ==
    {<<"Accepted", "Parsing">>, <<"Parsing", "Dispatching">>,
     <<"Parsing", "ErrorResponding">>, <<"Dispatching", "Responding">>,
     <<"Responding", "Closed">>, <<"ErrorResponding", "Closed">>}

\* a step of the program keeps every connection on the transitions `steps`:
\* it dispatches only a parsed Request, writes the handler's response only
\* after the dispatch, never leaves Closed, and neither reads nor writes on a
\* closed connection
FollowsMachine(steps) ==
    \A c \in conns :
        /\ Phase(c)' = Phase(c) \/ <<Phase(c), Phase(c)'>> \in steps
        /\ dispatchCalls'[c] # dispatchCalls[c] =>
              (pc[c] = "parsed" /\ perr[c] = NoErr /\ req[c] # <<>>)
        /\ (nwrites'[c] # nwrites[c] /\ ret[c] = "handleConnection") =>
              dispatchCalls[c] = 1
        /\ Phase(c) = "Closed" =>
              /\ Phase(c)' = "Closed"
              /\ out'[c] = out[c] /\ nwrites'[c] = nwrites[c]
              /\ got'[c] = got[c] /\ Len(inbuf'[c]) >= Len(inbuf[c])

\* C16: every step of a connection is a transition of the state machine
\* Accepted -> Parsing -> Dispatching -> Responding -> Closed, with
\* Parsing -> ErrorResponding -> Closed as the only other way to Closed.
C16_StateMachine == [][FollowsMachine(PhaseSteps)]_vars

\* the same with the transition a panic of parseRequest takes
StateMachineWithPanic ==
    [][FollowsMachine(PhaseSteps \cup {<<"Parsing", "Closed">>})]_vars

\* no header line read has the name Content-Length, letter for letter
NoContentLengthLine(c) ==
    \A i \in 1..Len(lines[c]) : LineName(lines[c][i]) # ContentLengthName

\* C19: once the blank line is read after header lines none of which is
\* named exactly Content-Length, parseRequest takes no step that waits for
\* the stream: it has read nothing after the blank line and no body byte,
\* has acquired no pool buffer, and its next step, if it has not returned,
\* is enabled whatever the stream holds; the Request it returns has an
\* empty body.
C19_NoContentLengthNoBody ==
    \A c \in conns :
        (BlankLineRead(c) /\ NoContentLengthLine(c)) =>
            /\ Cardinality({i \in 1..Len(AfterHeaderLines(c)) :
                              AfterHeaderLines(c)[i] = "\n"}) = 1
            /\ got[c] = 0 /\ gets[c] = <<>> /\ held[c] = NoBuf
            /\ pc[c] \notin {"pool_get", "slice", "read_full"}
            /\ pc[c] = "content_length" => ENABLED CheckContentLength(c)
            /\ pc[c] = "parse_exit" => ENABLED ParseReturn(c)
            /\ pc[c] # "content_length" =>
                  (perr[c] = NoErr /\ req[c] # <<>> /\ req[c][1].Body = <<>>)

\* C19 witness: parseRequest has returned a Request with an empty body for
\* a header section whose only line is named content-length, while the
\* client had neither sent the two bytes that follow nor closed.
C19_Witness ==
    \E c \in conns :
        /\ pc[c] = "parsed" /\ req[c] # <<>> /\ req[c][1].Body = <<>>
        /\ Len(lines[c]) = 1 /\ TrimSpace(lines[c][1]) = HdrLowerLen
        /\ ~eof[c] /\ inbuf[c] = <<>> /\ toSend[c] = BodyAB

\* the bytes of a received request that follow its header section, as many
\* as its Content-Length header declares, or none without that header
DeclaredLength(c) ==
    IF HasContentLength(c) THEN DigitsVal(headers[c][ContentLengthName]) ELSE 0
OwnBodyBytes(c) ==
    SubSeq(recv[c], Index(recv[c], CRLF \o CRLF) + 4,
           Index(recv[c], CRLF \o CRLF) + 3 + DeclaredLength(c))

\* C20: at every moment after parseRequest built it, the Body of a Request
\* is the Content-Length bytes that arrived on its own connection after the
\* header section, whatever the other connections do with the pooled
\* buffers meanwhile.
C20_BodyIsOwnBytes ==
    \A c \in conns :
        req[c] # <<>> =>
            /\ Len(req[c][1].Body) = DeclaredLength(c)
            /\ req[c][1].Body = OwnBodyBytes(c)

\* C20 witness: a Request holds the body "cd" while the buffer it was read
\* into, released and acquired by another connection's parseRequest, has been
\* overwritten with that connection's bytes.
C20_Witness ==
    \E c, d \in conns :
        /\ c # d /\ req[c] # <<>> /\ req[c][1].Body = BodyCD
        /\ puts[c] # <<>> /\ held[d] = puts[c][1] /\ got[d] > 0
        /\ SubSeq(bufData[held[d]], 1, 2) # BodyCD

\* the whole of a well-formed request has arrived on the connection
WellFormedRequests ==
    RootRequests \cup HelloWorldRequests \cup {HelloGoRequest} \cup NotFoundRequests
RequestComplete(c) == recv[c] \in WellFormedRequests

\* C17: a connection whose complete request has arrived is never left
\* unclosed in a process that has died of another goroutine's panic, where
\* no goroutine takes a step any more: otherwise no fair scheduling brings it
\* to its response and to Closed, and its progress depends on another
\* connection's task.
C17_NeverStoppedByAnother ==
    \A c \in conns : (RequestComplete(c) /\ closed[c] = 0) => ~crashed

====
